---------------------------- MODULE Spec2Model ----------------------------
(***************************************************************************)
(* co-reviewer: change extraction (GitScanner), context assembly and the   *)
(* review agent (ReviewAgent), and the orchestrator (CoReviewer.review).   *)
(*                                                                         *)
(* Python values are encoded as follows.                                   *)
(*   str | None      an option: <<>> is None, <<s>> is the string s        *)
(*   patch text      a sequence of one-character strings                   *)
(*   dict            a function whose domain is the set of keys            *)
(*   call outcome    [kind |-> "return", value |-> v] or                   *)
(*                   [kind |-> "raise", exc |-> class, msg |-> str(e)]     *)
(***************************************************************************)
EXTENDS Integers, Sequences, FiniteSets, TLC

VARIABLES
    settings,        \* Settings: max_files_per_review, max_diff_size
    diff,            \* the git.Diff entry handed to _parse_diff
    parsed,          \* what _parse_diff returned for it (an option)
    request,         \* the ReviewRequest
    repo,            \* the repository at request.workspace_path
    pc,              \* position of the running call
    current_branch,  \* local current_branch of CoReviewer.review
    changes,         \* the change list (get_changes result / agent input)
    llm_out,         \* what the backend and the parser did with the one call
    context,         \* the review context sent to the backend (an option)
    llm_calls,       \* number of chain.invoke calls made
    agent,           \* outcome of ReviewAgent.review_changes (an option)
    result,          \* outcome of CoReviewer.review (an option)
    current_commit,  \* local current_commit of get_changes (an option)
    reviewer,        \* api.py: the module-level reviewer (TRUE once created)
    http,            \* the response of POST /review (an option)
    calls            \* the locals of concurrent review calls, by call

vars == <<settings, diff, parsed, request, repo, pc, current_branch, changes,
          llm_out, context, llm_calls, agent, result, current_commit,
          reviewer, http, calls>>

-----------------------------------------------------------------------------
(* Bounds of the model *)

MaxTextLen == 3
MaxDiffSizeCap == 3
MaxFilesCap == 2
MaxDiffs == 3

-----------------------------------------------------------------------------
(* Python helpers *)

None == <<>>
Some(x) == <<x>>

\* `x or default` for an optional string: None and "" are both falsy
OrElse(opt, default) == IF opt # None /\ opt[1] # "" THEN opt[1] ELSE default

Return(v) == [kind |-> "return", value |-> v]
Raise(e, m) == [kind |-> "raise", exc |-> e, msg |-> m]

\* dict.update
DictUpdate(d, u) ==
    [k \in (DOMAIN d) \cup (DOMAIN u) |-> IF k \in DOMAIN u THEN u[k] ELSE d[k]]

EmptyDict == [k \in {} |-> 0]

\* seq[:n] for n >= 0
Prefix(seq, n) == SubSeq(seq, 1, IF n < Len(seq) THEN n ELSE Len(seq))

RECURSIVE SumFrom(_, _, _)
\* sum(...) as Python computes it: a left fold starting from 0
SumFrom(seq, i, acc) ==
    IF i > Len(seq) THEN acc ELSE SumFrom(seq, i + 1, acc + seq[i])

\* a plausible slip: the fold starts one element late
PySumSkipFirst(seq) == SumFrom(seq, 2, 0)

PySum(seq) == SumFrom(seq, 1, 0)

RECURSIVE Digits(_)
\* str(n) for n >= 0, as characters
Digits(n) ==
    LET d == <<"0", "1", "2", "3", "4", "5", "6", "7", "8", "9">>
    IN  IF n < 10 THEN <<d[n + 1]>> ELSE Digits(n \div 10) \o <<d[(n % 10) + 1]>>

RECURSIVE SplitFrom(_, _, _, _)
\* text.split("\n"): the lines between newlines, empty ones included
SplitFrom(text, i, cur, acc) ==
    IF i > Len(text) THEN Append(acc, cur)
    ELSE IF text[i] = "\n" THEN SplitFrom(text, i + 1, <<>>, Append(acc, cur))
    ELSE SplitFrom(text, i + 1, Append(cur, text[i]), acc)

SplitLines(text) == SplitFrom(text, 1, <<>>, <<>>)

\* line.startswith(prefix)
StartsWith(line, prefix) ==
    /\ Len(line) >= Len(prefix)
    /\ SubSeq(line, 1, Len(prefix)) = prefix

-----------------------------------------------------------------------------
(* models.py *)

FileChangeType == {"added", "modified", "deleted", "renamed"}

ReviewSeverity == {"info", "warning", "error", "critical"}

FileChange(file_path, change_type, additions, deletions, diff_text, old_path) ==
    [file_path |-> file_path, change_type |-> change_type,
     additions |-> additions, deletions |-> deletions,
     diff |-> diff_text, old_path |-> old_path]

ReviewComment(file_path, severity, category, message) ==
    [file_path |-> file_path, line_number |-> None, severity |-> severity,
     category |-> category, message |-> message, suggestion |-> None]

CodeReview(summary, files_reviewed, total_changes, comments, positive_feedback, overall_assessment, metadata) ==
    [summary |-> summary, files_reviewed |-> files_reviewed,
     total_changes |-> total_changes, comments |-> comments,
     positive_feedback |-> positive_feedback,
     overall_assessment |-> overall_assessment, metadata |-> metadata]

-----------------------------------------------------------------------------
(* git_scanner.py: GitScanner._parse_diff *)

\* bytes.decode("utf-8", errors="replace"): the undecodable byte 0xFF becomes
\* the replacement character U+FFFD, written "?" here
DecodeReplace(bytes) ==
    [i \in 1..Len(bytes) |-> IF bytes[i] = "0xFF" THEN "?" ELSE bytes[i]]

\* a plausible slip: the deleted-file flag tested before the new-file flag
ClassifyDeletedFirst(d) ==
    IF d.deleted_file THEN
        [change_type |-> "deleted", file_path |-> OrElse(d.a_path, ""),
         old_path |-> None]
    ELSE IF d.new_file THEN
        [change_type |-> "added", file_path |-> OrElse(d.b_path, ""),
         old_path |-> None]
    ELSE IF d.renamed_file THEN
        [change_type |-> "renamed", file_path |-> OrElse(d.b_path, ""),
         old_path |-> d.a_path]
    ELSE
        [change_type |-> "modified",
         file_path |-> OrElse(d.b_path, OrElse(d.a_path, "")),
         old_path |-> None]

\* lines 97-112: the kind, the path and the old path of the entry
Classify(d) ==
    IF d.new_file THEN
        [change_type |-> "added", file_path |-> OrElse(d.b_path, ""),
         old_path |-> None]
    ELSE IF d.deleted_file THEN
        [change_type |-> "deleted", file_path |-> OrElse(d.a_path, ""),
         old_path |-> None]
    ELSE IF d.renamed_file THEN
        [change_type |-> "renamed", file_path |-> OrElse(d.b_path, ""),
         old_path |-> d.a_path]
    ELSE
        [change_type |-> "modified",
         file_path |-> OrElse(d.b_path, OrElse(d.a_path, "")),
         old_path |-> None]

\* lines 115-124: the decoded patch text ("" when diff.diff is empty or None)
DiffText(d) ==
    IF d.diff.kind = "none" \/ d.diff.data = <<>> THEN <<>>
    ELSE IF d.diff.kind = "bytes" THEN DecodeReplace(d.diff.data)
    ELSE d.diff.data

\* line 130: the f-string appended on truncation
TruncationMarker(n) ==
    <<"\n", ".", ".", ".", " ", "(", "t", "r", "u", "n", "c", "a", "t", "e",
      "d", ",", " ", "t", "o", "t", "a", "l", " ", "s", "i", "z", "e", ":",
      " ">> \o Digits(n) \o <<" ", "c", "h", "a", "r", "s", ")">>

\* a plausible slip: >= where the code has >
LimitDiffSizeOffByOne(text, max_diff_size) ==
    IF Len(text) >= max_diff_size
    THEN Prefix(text, max_diff_size) \o TruncationMarker(Len(text))
    ELSE text

\* lines 127-131
LimitDiffSize(text, max_diff_size) ==
    IF Len(text) > max_diff_size
    THEN Prefix(text, max_diff_size) \o TruncationMarker(Len(text))
    ELSE text

RECURSIVE CountFrom(_, _, _, _)
\* lines 141-145: the fallback count over the lines of the stored text
CountFrom(lines, i, additions, deletions) ==
    IF i > Len(lines) THEN [additions |-> additions, deletions |-> deletions]
    ELSE IF StartsWith(lines[i], <<"+">>) /\ ~StartsWith(lines[i], <<"+", "+", "+">>)
         THEN CountFrom(lines, i + 1, additions + 1, deletions)
    ELSE IF StartsWith(lines[i], <<"-">>) /\ ~StartsWith(lines[i], <<"-", "-", "-">>)
         THEN CountFrom(lines, i + 1, additions, deletions + 1)
    ELSE CountFrom(lines, i + 1, additions, deletions)

\* stats.get(key, 0)
DictGet(d, key, default) == IF key \in DOMAIN d THEN d[key] ELSE default

\* a plausible slip: the fallback counts the +++ and --- header lines too
CountChangesWithHeaders(d, text) ==
    IF d.stats # None /\ DOMAIN d.stats[1] # {}
    THEN [additions |-> DictGet(d.stats[1], "insertions", 0),
          deletions |-> DictGet(d.stats[1], "deletions", 0)]
    ELSE LET lines == SplitLines(text)
         IN  [additions |-> Cardinality({i \in 1..Len(lines) :
                                            StartsWith(lines[i], <<"+">>)}),
              deletions |-> Cardinality({i \in 1..Len(lines) :
                                            StartsWith(lines[i], <<"-">>)})]

\* lines 134-145: `hasattr(diff, "stats") and diff.stats` is false for a
\* missing attribute and for an empty dict
CountChanges(d, text) ==
    IF d.stats # None /\ DOMAIN d.stats[1] # {}
    THEN [additions |-> DictGet(d.stats[1], "insertions", 0),
          deletions |-> DictGet(d.stats[1], "deletions", 0)]
    ELSE CountFrom(SplitLines(text), 1, 0, 0)

\* lines 95-157; reading an attribute of a broken entry raises, and the
\* handler at 155-157 turns that into None
parse_diff(s, d) ==
    IF d.broken THEN None
    ELSE LET c == Classify(d)
             text == LimitDiffSize(DiffText(d), s.max_diff_size)
             n == CountChanges(d, text)
         IN  Some(FileChange(c.file_path, c.change_type, n.additions,
                             n.deletions, text, c.old_path))

-----------------------------------------------------------------------------
(* review_agent.py: ReviewAgent *)

\* lines 99-109: the text block of one change; the old-path line is empty
\* when old_path is None or ""
ChangeBlock(c) ==
    [file |-> c.file_path, change_type |-> c.change_type,
     additions |-> c.additions, deletions |-> c.deletions,
     old_path_line |-> IF c.old_path # None /\ c.old_path[1] # ""
                       THEN Some(c.old_path[1]) ELSE None,
     diff |-> c.diff]

\* ", ".join(focus_areas)
RECURSIVE JoinComma(_)
JoinComma(seq) ==
    IF Len(seq) = 0 THEN ""
    ELSE IF Len(seq) = 1 THEN seq[1]
    ELSE seq[1] \o ", " \o JoinComma(Tail(seq))

\* lines 86-118
prepare_review_context(chs, custom_instructions, focus_areas) ==
    [num_files |-> Len(chs),
     total_additions |-> PySum([i \in 1..Len(chs) |-> chs[i].additions]),
     total_deletions |-> PySum([i \in 1..Len(chs) |-> chs[i].deletions]),
     changes |-> [i \in 1..Len(chs) |-> ChangeBlock(chs[i])],
     custom_instructions |-> OrElse(custom_instructions, "None"),
     focus_areas |-> IF focus_areas # None /\ focus_areas[1] # <<>>
                     THEN JoinComma(focus_areas[1])
                     ELSE "General code quality"]

\* the fields of CodeReview declared without a default (models.py 52-61)
RequiredFields == {"summary", "files_reviewed", "total_changes", "overall_assessment"}

\* the severity tokens an answer carries in this model, and each token with
\* its letters in lower case
SeverityTokens == ReviewSeverity \cup {"WARNING", "blocker"}
LowerCase == [t \in SeverityTokens |-> IF t = "WARNING" THEN "warning" ELSE t]
AsWritten == [t \in SeverityTokens |-> t]

\* a plausible variant: severity tokens matched without regard to case and
\* stored as the enum value
ParseResponseAnyCase(raw) ==
    IF ~raw.json_ok
    THEN Raise("OutputParserException", "Invalid json output")
    ELSE IF ~(RequiredFields \subseteq DOMAIN raw.obj)
    THEN Raise("OutputParserException", "Field required")
    ELSE LET comments == IF "comments" \in DOMAIN raw.obj
                         THEN raw.obj.comments ELSE <<>>
         IN  IF \E i \in 1..Len(comments) :
                    LowerCase[comments[i].severity] \notin ReviewSeverity
             THEN Raise("OutputParserException",
                        "Input should be 'info', 'warning', 'error' or 'critical'")
             ELSE Return(CodeReview(
                      raw.obj.summary, raw.obj.files_reviewed,
                      raw.obj.total_changes,
                      [i \in 1..Len(comments) |->
                          ReviewComment(comments[i].file_path,
                                        LowerCase[comments[i].severity],
                                        comments[i].category, comments[i].message)],
                      DictGet(raw.obj, "positive_feedback", <<>>),
                      raw.obj.overall_assessment,
                      DictGet(raw.obj, "metadata", EmptyDict)))

\* PydanticOutputParser(pydantic_object=CodeReview) on the raw answer: the
\* answer must be JSON, carry every required field, and give each comment a
\* severity that is a value of ReviewSeverity
ParseResponse(raw) ==
    IF ~raw.json_ok
    THEN Raise("OutputParserException", "Invalid json output")
    ELSE IF ~(RequiredFields \subseteq DOMAIN raw.obj)
    THEN Raise("OutputParserException", "Field required")
    ELSE LET comments == IF "comments" \in DOMAIN raw.obj
                         THEN raw.obj.comments ELSE <<>>
         IN  IF \E i \in 1..Len(comments) : comments[i].severity \notin ReviewSeverity
             THEN Raise("OutputParserException",
                        "Input should be 'info', 'warning', 'error' or 'critical'")
             ELSE Return(CodeReview(
                      raw.obj.summary, raw.obj.files_reviewed,
                      raw.obj.total_changes,
                      [i \in 1..Len(comments) |->
                          ReviewComment(comments[i].file_path, comments[i].severity,
                                        comments[i].category, comments[i].message)],
                      DictGet(raw.obj, "positive_feedback", <<>>),
                      raw.obj.overall_assessment,
                      DictGet(raw.obj, "metadata", EmptyDict)))

\* lines 120-179: chain.invoke(context); the backend either raises or
\* answers, and the parser either raises or returns a CodeReview
run_review_chain(ctx, out) ==
    IF out.kind = "exception" THEN Raise(out.exc, out.msg)
    ELSE ParseResponse(out.raw)

\* a plausible slip: the system comment built with the wrong severity
create_error_review_critical(chs, error_msg) ==
    CodeReview(
        "Review failed with error: " \o error_msg,
        Len(chs),
        [additions |-> PySum([i \in 1..Len(chs) |-> chs[i].additions]),
         deletions |-> PySum([i \in 1..Len(chs) |-> chs[i].deletions])],
        <<ReviewComment("N/A", "critical", "system",
                        "Review process failed: " \o error_msg)>>,
        <<>>,
        "error",
        [error |-> error_msg])

\* lines 181-204
create_error_review(chs, error_msg) ==
    CodeReview(
        "Review failed with error: " \o error_msg,
        Len(chs),
        [additions |-> PySum([i \in 1..Len(chs) |-> chs[i].additions]),
         deletions |-> PySum([i \in 1..Len(chs) |-> chs[i].deletions])],
        <<ReviewComment("N/A", "error", "system",
                        "Review process failed: " \o error_msg)>>,
        <<>>,
        "error",
        [error |-> error_msg])

\* the exception classes the backend client and the parser raise; all of
\* them derive from Exception
ExceptionClasses == {"APIConnectionError", "OutputParserException"}

\* a plausible slip: a handler that names only the backend's exception
CaughtBackendOnly(exc) == exc = "APIConnectionError"

\* line 82: `except Exception`
Caught(exc) == exc \in ExceptionClasses

\* lines 70-74
LimitFiles(chs, max_files) ==
    IF Len(chs) > max_files THEN Prefix(chs, max_files) ELSE chs

\* a plausible slip: one more attempt after a failed call
review_changes_retry(s, chs, custom_instructions, focus_areas, out) ==
    IF chs = <<>> THEN
        [ret |-> Return(CodeReview("No changes to review", 0,
                                   [additions |-> 0, deletions |-> 0],
                                   <<>>, <<>>, "no changes", EmptyDict)),
         context |-> None, calls |-> 0]
    ELSE
        LET capped == LimitFiles(chs, s.max_files_per_review)
            ctx == prepare_review_context(capped, custom_instructions, focus_areas)
            r == run_review_chain(ctx, out)
        IN  [ret |-> IF r.kind = "raise" /\ Caught(r.exc)
                     THEN Return(create_error_review(capped, r.msg))
                     ELSE r,
             context |-> Some(ctx),
             calls |-> IF r.kind = "raise" THEN 2 ELSE 1]

\* lines 41-84; `out` is what the backend and the parser do with the call,
\* read only when the call is made
review_changes(s, chs, custom_instructions, focus_areas, out) ==
    IF chs = <<>> THEN
        [ret |-> Return(CodeReview("No changes to review", 0,
                                   [additions |-> 0, deletions |-> 0],
                                   <<>>, <<>>, "no changes", EmptyDict)),
         context |-> None, calls |-> 0]
    ELSE
        LET capped == LimitFiles(chs, s.max_files_per_review)
            ctx == prepare_review_context(capped, custom_instructions, focus_areas)
            r == run_review_chain(ctx, out)
        IN  [ret |-> IF r.kind = "raise" /\ Caught(r.exc)
                     THEN Return(create_error_review(capped, r.msg))
                     ELSE r,
             context |-> Some(ctx),
             calls |-> 1]

-----------------------------------------------------------------------------
(* git_scanner.py: GitScanner.__init__, get_current_branch, get_changes *)

\* lines 30-38: Repo(path) raises InvalidGitRepositoryError for a directory
\* that is no repository and NoSuchPathError for a path that does not exist;
\* only the first is caught
init_repo(r, workspace_path) ==
    IF r.kind = "missing" THEN Raise("NoSuchPathError", workspace_path)
    ELSE IF r.kind = "invalid"
    THEN Raise("ValueError", "Not a valid git repository: " \o workspace_path)
    ELSE IF r.kind = "bare"
    THEN Raise("ValueError", "Repository at " \o workspace_path \o " is bare")
    ELSE Return(r)

\* lines 40-44
get_current_branch(r) ==
    IF r.detached THEN r.hexsha8 ELSE r.active_branch

RECURSIVE ParseUntilFailure(_, _, _, _)
\* a plausible slip: the loop ends at the first entry that fails to parse
ParseUntilFailure(s, diffs, i, acc) ==
    IF i > Len(diffs) THEN acc
    ELSE LET change == parse_diff(s, diffs[i])
         IN  IF change = None THEN acc
             ELSE ParseUntilFailure(s, diffs, i + 1, Append(acc, change[1]))

\* line 73-75: the records of the entries that parsed, in the diff's order
RECURSIVE ParseAll(_, _, _, _)
ParseAll(s, diffs, i, acc) ==
    IF i > Len(diffs) THEN acc
    ELSE LET change == parse_diff(s, diffs[i])
         IN  ParseAll(s, diffs, i + 1,
                      IF change # None THEN Append(acc, change[1]) ELSE acc)

\* lines 59-65: the commit that current_ref, or "HEAD" in its place, names
rev_parse(r, current_ref) ==
    LET ref == IF current_ref = None THEN "HEAD" ELSE current_ref[1]
    IN  IF ref = "HEAD" THEN r.head_commit ELSE r.tips[ref]

\* lines 46-83: repo.commit raises r.bad_ref_exc for a ref it cannot
\* resolve; a GitCommandError is re-raised as ValueError
get_changes(s, r, base_branch, current_ref) ==
    LET ref == IF current_ref = None THEN "HEAD" ELSE current_ref[1]
        unresolved == IF base_branch \notin r.refs THEN Some(base_branch)
                      ELSE IF ref \notin r.refs THEN Some(ref)
                      ELSE None
    IN  IF unresolved # None THEN
            IF r.bad_ref_exc = "GitCommandError"
            THEN Raise("ValueError", "Failed to get git diff: " \o unresolved[1])
            ELSE Raise(r.bad_ref_exc, unresolved[1])
        ELSE Return(ParseAll(s, r.diffs, 1, <<>>))

-----------------------------------------------------------------------------
(* reviewer.py: CoReviewer.review *)

\* a plausible slip: the agent's empty-list result reused for this case
no_changes_review_as_agent(req, current) ==
    CodeReview("No changes to review", 0,
               [additions |-> 0, deletions |-> 0],
               <<>>, <<>>, "no changes",
               [base_branch |-> req.base_branch, current_branch |-> current])

\* lines 51-64
no_changes_review(req, current) ==
    CodeReview("No changes detected between branches", 0,
               [additions |-> 0, deletions |-> 0],
               <<>>, <<"No changes to review">>, "no changes",
               [base_branch |-> req.base_branch, current_branch |-> current])

\* a plausible slip: the result built anew around the merged metadata, with
\* positive_feedback left to its default
add_metadata_rebuilt(review, req, current) ==
    CodeReview(review.summary, review.files_reviewed, review.total_changes,
               review.comments, <<>>, review.overall_assessment,
               DictUpdate(review.metadata,
                          [base_branch |-> req.base_branch,
                           current_branch |-> current,
                           workspace_path |-> req.workspace_path]))

\* a plausible slip: setdefault semantics, an existing key wins
add_metadata_keep_existing(review, req, current) ==
    [review EXCEPT !.metadata =
        DictUpdate([base_branch |-> req.base_branch,
                    current_branch |-> current,
                    workspace_path |-> req.workspace_path], @)]

\* lines 74-81
add_metadata(review, req, current) ==
    [review EXCEPT !.metadata =
        DictUpdate(@, [base_branch |-> req.base_branch,
                       current_branch |-> current,
                       workspace_path |-> req.workspace_path])]

-----------------------------------------------------------------------------
(* Inputs *)

SeqsUpTo(S, n) == UNION {[1..k -> S] : k \in 0..n}

Chars == {"+", "-", "\n"}
Bytes == Chars \cup {"0xFF"}

\* diff.diff: None, a str or bytes
DiffPayloads ==
    {[kind |-> "none", data |-> <<>>]}
    \cup {[kind |-> "str", data |-> t] : t \in SeqsUpTo(Chars, MaxTextLen)}
    \cup {[kind |-> "bytes", data |-> t] : t \in SeqsUpTo(Bytes, MaxTextLen)}

\* diff.stats: no such attribute, an empty dict, or both counts
DiffStats == {None, Some(EmptyDict), Some([insertions |-> 2, deletions |-> 1])}

BrokenDiff ==
    [new_file |-> FALSE, deleted_file |-> FALSE, renamed_file |-> FALSE,
     a_path |-> None, b_path |-> None,
     diff |-> [kind |-> "none", data |-> <<>>], stats |-> None, broken |-> TRUE]

\* every combination of the flags and of present or absent paths
DiffEntries ==
    {[new_file |-> n, deleted_file |-> d, renamed_file |-> r,
      a_path |-> a, b_path |-> b, diff |-> t, stats |-> st, broken |-> FALSE] :
        n \in BOOLEAN, d \in BOOLEAN, r \in BOOLEAN,
        a \in {None, Some("old.py")}, b \in {None, Some("new.py")},
        t \in DiffPayloads, st \in DiffStats}
    \cup {BrokenDiff}

\* the entries of the repositories of the orchestrator's runs
SampleDiffs ==
    {[new_file |-> TRUE, deleted_file |-> FALSE, renamed_file |-> FALSE,
      a_path |-> None, b_path |-> Some("b.txt"),
      diff |-> [kind |-> "bytes", data |-> <<"+", "\n", "+">>],
      stats |-> None, broken |-> FALSE],
     [new_file |-> FALSE, deleted_file |-> FALSE, renamed_file |-> FALSE,
      a_path |-> Some("a.txt"), b_path |-> Some("a.txt"),
      diff |-> [kind |-> "str", data |-> <<"-", "\n", "+">>],
      stats |-> None, broken |-> FALSE],
     [new_file |-> FALSE, deleted_file |-> FALSE, renamed_file |-> TRUE,
      a_path |-> Some("c.txt"), b_path |-> Some("d.txt"),
      diff |-> [kind |-> "none", data |-> <<>>],
      stats |-> Some([insertions |-> 2, deletions |-> 1]), broken |-> FALSE],
     BrokenDiff}

\* change records handed to the agent directly
SampleChanges ==
    {FileChange("test.py", "modified", 10, 5, <<"-", "\n", "+">>, None),
     FileChange("b.txt", "added", 3, 0, <<"+">>, None),
     FileChange("d.txt", "renamed", 1, 2, <<>>, Some("c.txt"))}

RawComments ==
    <<[file_path |-> "a.txt", severity |-> "warning", category |-> "bug risk",
       message |-> "m1"],
      [file_path |-> "b.txt", severity |-> "info", category |-> "style",
       message |-> "m2"]>>

\* answers of the backend: not JSON, a required field missing, a severity
\* token in another case, a severity token of another word, the required
\* fields only, every field
RawResponses ==
    {[json_ok |-> FALSE, obj |-> EmptyDict],
     [json_ok |-> TRUE,
      obj |-> [summary |-> "s", files_reviewed |-> 1,
               total_changes |-> [additions |-> 1, deletions |-> 1],
               comments |-> <<[file_path |-> "a.txt", severity |-> "blocker",
                               category |-> "bug risk", message |-> "m1"]>>,
               overall_assessment |-> "needs work"]],
     [json_ok |-> TRUE,
      obj |-> [files_reviewed |-> 1,
               total_changes |-> [additions |-> 1, deletions |-> 1],
               overall_assessment |-> "approved"]],
     [json_ok |-> TRUE,
      obj |-> [summary |-> "s", files_reviewed |-> 1,
               total_changes |-> [additions |-> 1, deletions |-> 1],
               comments |-> <<[file_path |-> "a.txt", severity |-> "WARNING",
                               category |-> "bug risk", message |-> "m1"]>>,
               overall_assessment |-> "needs work"]],
     [json_ok |-> TRUE,
      obj |-> [summary |-> "s", files_reviewed |-> 1,
               total_changes |-> [additions |-> 1, deletions |-> 1],
               overall_assessment |-> "approved"]],
     [json_ok |-> TRUE,
      obj |-> [summary |-> "s", files_reviewed |-> 7,
               total_changes |-> [additions |-> 9, deletions |-> 9],
               comments |-> RawComments,
               positive_feedback |-> <<"good tests">>,
               overall_assessment |-> "needs work",
               metadata |-> [base_branch |-> "evil", note |-> "n"]]]}

LlmOutcomes ==
    {[kind |-> "exception", exc |-> "APIConnectionError", msg |-> "Connection error."]}
    \cup {[kind |-> "response", raw |-> r] : r \in RawResponses}

IdleRequest ==
    [workspace_path |-> "/ws", base_branch |-> "main", current_branch |-> None,
     custom_instructions |-> None, focus_areas |-> Some(<<>>)]

\* a commit is its hexsha, split after the eighth character
MainTip == <<"0f0e0d0c", "9b8a7f6e5d4c3b2a19080706050403020100ffee">>
FeatureTip == <<"1a2b3c4d", "5e6f708192a3b4c5d6e7f8091a2b3c4d5e6f7081">>

IdleRepo ==
    [kind |-> "ok", refs |-> {"main", "feature", "HEAD"}, detached |-> FALSE,
     active_branch |-> "feature", hexsha8 |-> FeatureTip[1],
     bad_ref_exc |-> "BadName", diffs |-> <<>>,
     tips |-> [main |-> MainTip, feature |-> FeatureTip],
     head_commit |-> FeatureTip]

-----------------------------------------------------------------------------
(* GitScanner._parse_diff on one entry *)

InitParse ==
    /\ settings \in {[max_files_per_review |-> MaxFilesCap, max_diff_size |-> m] :
                        m \in 0..MaxDiffSizeCap}
    /\ diff \in DiffEntries
    /\ parsed = None
    /\ pc = "parse"
    /\ request = IdleRequest
    /\ repo = IdleRepo
    /\ current_branch = None
    /\ changes = <<>>
    /\ llm_out = None
    /\ context = None
    /\ llm_calls = 0
    /\ agent = None
    /\ result = None
    /\ current_commit = None
    /\ reviewer = TRUE
    /\ http = None
    /\ calls = <<>>

ParseDiff ==
    /\ pc = "parse"
    /\ parsed' = parse_diff(settings, diff)
    /\ pc' = "parsed"
    /\ UNCHANGED <<settings, diff, request, repo, current_branch, changes,
                   llm_out, context, llm_calls, agent, result>>
    /\ UNCHANGED <<current_commit, reviewer, http, calls>>

NextParse == ParseDiff

SpecParse == InitParse /\ [][NextParse]_vars

-----------------------------------------------------------------------------
(* ReviewAgent.review_changes called directly *)

InitAgent ==
    /\ settings \in {[max_files_per_review |-> n, max_diff_size |-> MaxDiffSizeCap] :
                        n \in 0..MaxFilesCap}
    /\ changes \in SeqsUpTo(SampleChanges, MaxDiffs)
    /\ request \in {[IdleRequest EXCEPT !.custom_instructions = ci,
                                        !.focus_areas = fa] :
                        ci \in {None, Some(""), Some("Be careful")},
                        fa \in {None, Some(<<>>), Some(<<"security">>),
                                Some(<<"security", "performance">>)}}
    /\ pc = "agent"
    /\ diff = BrokenDiff
    /\ parsed = None
    /\ repo = IdleRepo
    /\ current_branch = None
    /\ llm_out = None
    /\ context = None
    /\ llm_calls = 0
    /\ agent = None
    /\ result = None
    /\ current_commit = None
    /\ reviewer = TRUE
    /\ http = None
    /\ calls = <<>>

\* the call of review_changes and what it leaves behind
CallAgent(out) ==
    LET a == review_changes(settings, changes, request.custom_instructions,
                            request.focus_areas, out)
    IN  /\ agent' = Some(a.ret)
        /\ context' = a.context
        /\ llm_calls' = llm_calls + a.calls
        /\ llm_out' = IF a.calls > 0 THEN Some(out) ELSE None

DirectReviewChanges ==
    /\ pc = "agent"
    /\ \E out \in LlmOutcomes : CallAgent(out)
    /\ pc' = "agent_done"
    /\ UNCHANGED <<settings, diff, parsed, request, repo, current_branch,
                   changes, result>>
    /\ UNCHANGED <<current_commit, reviewer, http, calls>>

NextAgent == DirectReviewChanges

SpecAgent == InitAgent /\ [][NextAgent]_vars

-----------------------------------------------------------------------------
(* CoReviewer.review *)

Init ==
    /\ settings \in {[max_files_per_review |-> n, max_diff_size |-> MaxDiffSizeCap] :
                        n \in 1..MaxFilesCap}
    /\ request \in {[IdleRequest EXCEPT !.base_branch = b, !.current_branch = c,
                                        !.custom_instructions = ci] :
                        b \in {"main", "nope"},
                        c \in {None, Some("feature"), Some("nope")},
                        ci \in {None, Some("Be careful")}}
    /\ repo \in {[IdleRepo EXCEPT !.kind = k] : k \in {"missing", "invalid", "bare"}}
                \cup {[IdleRepo EXCEPT !.detached = dt, !.bad_ref_exc = e, !.diffs = ds] :
                        dt \in BOOLEAN, e \in {"BadName", "GitCommandError"},
                        ds \in SeqsUpTo(SampleDiffs, MaxDiffs)}
    /\ pc = "start"
    /\ diff = BrokenDiff
    /\ parsed = None
    /\ current_branch = None
    /\ changes = <<>>
    /\ llm_out = None
    /\ context = None
    /\ llm_calls = 0
    /\ agent = None
    /\ result = None
    /\ current_commit = None
    /\ reviewer = TRUE
    /\ http = None
    /\ calls = <<>>

\* line 39: scanner = GitScanner(request.workspace_path, self.settings)
InitRepo ==
    /\ pc = "start"
    /\ LET r == init_repo(repo, request.workspace_path)
       IN  IF r.kind = "raise"
           THEN pc' = "done" /\ result' = Some(r)
           ELSE pc' = "scanner" /\ UNCHANGED result
    /\ UNCHANGED <<settings, diff, parsed, request, repo, current_branch,
                   changes, llm_out, context, llm_calls, agent>>
    /\ UNCHANGED <<current_commit, reviewer, http, calls>>

\* line 42: current_branch = request.current_branch or scanner.get_current_branch()
GetCurrentBranch ==
    /\ pc = "scanner"
    /\ current_branch' = Some(OrElse(request.current_branch, get_current_branch(repo)))
    /\ pc' = "current"
    /\ UNCHANGED <<settings, diff, parsed, request, repo, changes, llm_out,
                   context, llm_calls, agent, result>>
    /\ UNCHANGED <<current_commit, reviewer, http, calls>>

\* lines 46-49
GetChanges ==
    /\ pc = "current"
    /\ LET r == get_changes(settings, repo, request.base_branch, request.current_branch)
       IN  IF r.kind = "raise"
           THEN /\ pc' = "done"
                /\ result' = Some(r)
                /\ UNCHANGED <<changes, current_commit>>
           ELSE /\ pc' = "extracted"
                /\ changes' = r.value
                /\ current_commit' = Some(rev_parse(repo, request.current_branch))
                /\ UNCHANGED result
    /\ UNCHANGED <<settings, diff, parsed, request, repo, current_branch,
                   llm_out, context, llm_calls, agent>>
    /\ UNCHANGED <<reviewer, http, calls>>

\* lines 51-64
NoChanges ==
    /\ pc = "extracted"
    /\ changes = <<>>
    /\ result' = Some(Return(no_changes_review(request, current_branch[1])))
    /\ pc' = "done"
    /\ UNCHANGED <<settings, diff, parsed, request, repo, current_branch,
                   changes, llm_out, context, llm_calls, agent>>
    /\ UNCHANGED <<current_commit, reviewer, http, calls>>

\* lines 66-72; an exception leaving review_changes would leave review too
ReviewChanges ==
    /\ pc = "extracted"
    /\ changes # <<>>
    /\ \E out \in LlmOutcomes : CallAgent(out)
    /\ IF agent'[1].kind = "raise"
       THEN pc' = "done" /\ result' = agent'
       ELSE pc' = "analyzed" /\ UNCHANGED result
    /\ UNCHANGED <<settings, diff, parsed, request, repo, current_branch, changes>>
    /\ UNCHANGED <<current_commit, reviewer, http, calls>>

\* lines 74-84
AddMetadata ==
    /\ pc = "analyzed"
    /\ result' = Some(Return(add_metadata(agent[1].value, request, current_branch[1])))
    /\ pc' = "done"
    /\ UNCHANGED <<settings, diff, parsed, request, repo, current_branch,
                   changes, llm_out, context, llm_calls, agent>>
    /\ UNCHANGED <<current_commit, reviewer, http, calls>>

Next ==
    \/ InitRepo
    \/ GetCurrentBranch
    \/ GetChanges
    \/ NoChanges
    \/ ReviewChanges
    \/ AddMetadata

Spec == Init /\ [][Next]_vars

-----------------------------------------------------------------------------
(* Properties *)

CodeReviewFields ==
    {"summary", "files_reviewed", "total_changes", "comments",
     "positive_feedback", "overall_assessment", "metadata"}

\* the one backend call was made and it, or the parsing of its answer, failed
LlmFailed ==
    /\ llm_out # None
    /\ \/ llm_out[1].kind = "exception"
       \/ /\ llm_out[1].kind = "response"
          /\ ParseResponse(llm_out[1].raw).kind = "raise"

\* str(e) of that failure
FailureText ==
    IF llm_out[1].kind = "exception" THEN llm_out[1].msg
    ELSE ParseResponse(llm_out[1].raw).msg

\* C1: review_changes never raises: whatever the change list, the custom
\* instructions, the focus areas and the outcome of the backend call or of
\* the parsing, the call ends by returning a CodeReview value.
C1_ReviewChangesNeverRaises ==
    pc = "agent_done" =>
        /\ agent # None
        /\ agent[1].kind = "return"
        /\ DOMAIN agent[1].value = CodeReviewFields

\* a schema-invalid answer and a backend exception were both turned into a
\* returned value
C1_Witness ==
    /\ pc = "agent_done"
    /\ LlmFailed
    /\ llm_out[1].kind = "response"
    /\ agent[1].kind = "return"

\* C2: when the backend call or the parsing fails on a non-empty change
\* list, the returned result has overall_assessment "error", exactly one
\* comment, of category "system" and severity error, and metadata["error"]
\* holds the failure text.
C2_ErrorReviewShape ==
    (pc = "agent_done" /\ changes # <<>> /\ LlmFailed) =>
        /\ agent[1].kind = "return"
        /\ agent[1].value.overall_assessment = "error"
        /\ Len(agent[1].value.comments) = 1
        /\ agent[1].value.comments[1].category = "system"
        /\ agent[1].value.comments[1].severity = "error"
        /\ "error" \in DOMAIN agent[1].value.metadata
        /\ agent[1].value.metadata["error"] = FailureText

C2_Witness ==
    /\ pc = "agent_done"
    /\ changes # <<>>
    /\ LlmFailed
    /\ llm_out[1].kind = "exception"
    /\ agent[1].value.metadata["error"] = "Connection error."

\* C3: in a valid non-bare repository whose diff yields zero change records,
\* review returns files_reviewed 0, overall_assessment "no changes", zero
\* totals, no comments and positive_feedback ["No changes to review"].
C3_NoChangesResult ==
    (pc = "done" /\ repo.kind = "ok" /\ result[1].kind = "return" /\ changes = <<>>) =>
        /\ result[1].value.files_reviewed = 0
        /\ result[1].value.overall_assessment = "no changes"
        /\ result[1].value.total_changes = [additions |-> 0, deletions |-> 0]
        /\ result[1].value.comments = <<>>
        /\ result[1].value.positive_feedback = <<"No changes to review">>

\* zero records from an empty diff, and zero records from a diff whose
\* entries were all dropped, both end here
C3_Witness ==
    /\ pc = "done"
    /\ result[1].kind = "return"
    /\ changes = <<>>
    /\ repo.diffs # <<>>

\* C4: in every execution of review the backend is invoked at most once, only
\* after extraction completed with at least one record, and never when
\* extraction raised or returned zero records.
C4_OneBackendCall ==
    /\ llm_calls <= 1
    /\ llm_calls = 1 => (pc \in {"analyzed", "done"} /\ Len(changes) >= 1)
    /\ pc \in {"start", "scanner", "current", "extracted"} => llm_calls = 0
    /\ (pc = "done" /\ changes = <<>>) => llm_calls = 0

\* a failed call that was not tried again
C4_Witness ==
    /\ pc = "done"
    /\ llm_calls = 1
    /\ LlmFailed
    /\ result[1].kind = "return"

ProvenanceKeys == {"base_branch", "current_branch", "workspace_path"}

\* C5: every result review returns, the zero-changes one included, has
\* metadata with the base branch, the resolved current ref and the workspace
\* location.
C5_ProvenanceAlways ==
    (pc = "done" /\ result[1].kind = "return") =>
        ProvenanceKeys \subseteq DOMAIN result[1].value.metadata

\* C6: Enrich sets base_branch, current_branch and workspace_path to the
\* orchestrator's values even over values the agent's result carried, and
\* keeps every other metadata key of the agent with its value.
C6_EnrichMerge ==
    (pc = "done" /\ agent # None /\ result[1].kind = "return") =>
        LET m == result[1].value.metadata
            am == agent[1].value.metadata
        IN  /\ ProvenanceKeys \subseteq DOMAIN m
            /\ m["base_branch"] = request.base_branch
            /\ m["current_branch"] = current_branch[1]
            /\ m["workspace_path"] = request.workspace_path
            /\ \A k \in (DOMAIN am) \ ProvenanceKeys : k \in DOMAIN m /\ m[k] = am[k]
            /\ DOMAIN m = (DOMAIN am) \cup ProvenanceKeys

\* the agent's result carried another base_branch and a key of its own
C6_Witness ==
    /\ pc = "done"
    /\ agent # None
    /\ agent[1].kind = "return"
    /\ "base_branch" \in DOMAIN agent[1].value.metadata
    /\ agent[1].value.metadata["base_branch"] # request.base_branch
    /\ result[1].value.metadata["note"] = "n"

\* C7: when more than N = max_files_per_review records were extracted, only
\* the first N, in order, are sent, and files_reviewed of the result review
\* returns is N, when the backend call succeeds and when it fails.
C7_CappedFilesReviewed ==
    (/\ pc = "done"
     /\ agent # None
     /\ result[1].kind = "return"
     /\ Len(changes) > settings.max_files_per_review) =>
        LET n == settings.max_files_per_review
        IN  /\ context[1].num_files = n
            /\ Len(context[1].changes) = n
            /\ \A i \in 1..n : context[1].changes[i].file = changes[i].file_path
            /\ result[1].value.files_reviewed = n

RECURSIVE Sigma(_)
\* the sum of a sequence of integers, from its definition
Sigma(seq) == IF seq = <<>> THEN 0 ELSE Head(seq) + Sigma(Tail(seq))

\* the records review_changes processes: all of them, or the first
\* max_files_per_review
Processed ==
    LET n == settings.max_files_per_review
    IN  [i \in 1..(IF Len(changes) > n THEN n ELSE Len(changes)) |-> changes[i]]

\* C8: total_additions and total_deletions of the assembled context and of
\* the error result are the exact sums of additions and of deletions over
\* exactly the processed (possibly capped) records.
C8_ExactTotals ==
    (pc = "agent_done" /\ context # None) =>
        LET adds == Sigma([i \in 1..Len(Processed) |-> Processed[i].additions])
            dels == Sigma([i \in 1..Len(Processed) |-> Processed[i].deletions])
        IN  /\ context[1].total_additions = adds
            /\ context[1].total_deletions = dels
            /\ LlmFailed =>
                 agent[1].value.total_changes = [additions |-> adds, deletions |-> dels]

\* a capped list of at least two records whose error result was built
C8_Witness ==
    /\ pc = "agent_done"
    /\ context # None
    /\ LlmFailed
    /\ Len(changes) > settings.max_files_per_review
    /\ Len(Processed) >= 2
    /\ agent[1].value.total_changes["additions"] > 0

\* C9: a produced record has old_path set when its change_type is renamed
\* and unset otherwise, for every combination of the flags and of present or
\* absent a_path and b_path.
C9_OldPathIffRenamed ==
    (pc = "parsed" /\ parsed # None) =>
        /\ parsed[1].change_type = "renamed" => parsed[1].old_path # None
        /\ parsed[1].change_type # "renamed" => parsed[1].old_path = None

\* C10: the stored patch text is at most max_diff_size plus the marker long;
\* a decoded patch of at most max_diff_size characters is stored as it is,
\* and a longer one as its first max_diff_size characters followed by the
\* marker stating the original length.
C10_PatchTruncation ==
    (pc = "parsed" /\ parsed # None) =>
        LET orig == DiffText(diff)
            stored == parsed[1].diff
            max == settings.max_diff_size
            marker == TruncationMarker(Len(orig))
        IN  /\ Len(stored) <= max + Len(marker)
            /\ Len(orig) <= max => stored = orig
            /\ Len(orig) > max =>
                 /\ Len(stored) = max + Len(marker)
                 /\ \A i \in 1..max : stored[i] = orig[i]
                 /\ SubSeq(stored, max + 1, Len(stored)) = marker
                 /\ SubSeq(marker, 30, Len(marker) - 7) = Digits(Len(orig))

\* a bytes patch with an undecodable byte, longer than the limit, was cut
C10_Witness ==
    /\ pc = "parsed"
    /\ parsed # None
    /\ diff.diff.kind = "bytes"
    /\ \E i \in 1..Len(diff.diff.data) : diff.diff.data[i] = "0xFF"
    /\ Len(DiffText(diff)) > settings.max_diff_size
    /\ settings.max_diff_size > 0
    /\ Len(parsed[1].diff) > Len(DiffText(diff))

-----------------------------------------------------------------------------
(* api.py: POST /review *)

\* lines 74-82: the response for what reviewer.review did
review_code(outcome) ==
    IF outcome.kind = "return"
    THEN [status |-> 200, detail |-> "", body |-> Some(outcome.value)]
    ELSE IF outcome.exc = "ValueError"
    THEN [status |-> 400, detail |-> outcome.msg, body |-> None]
    ELSE [status |-> 500, detail |-> "Review failed: " \o outcome.msg, body |-> None]

InitApi ==
    /\ settings = [max_files_per_review |-> MaxFilesCap, max_diff_size |-> MaxDiffSizeCap]
    /\ request \in {[IdleRequest EXCEPT !.base_branch = b, !.current_branch = c] :
                        b \in {"main", "nope"},
                        c \in {None, Some("feature"), Some("nope")}}
    /\ repo \in {[IdleRepo EXCEPT !.kind = k] : k \in {"missing", "invalid", "bare"}}
                \cup {[IdleRepo EXCEPT !.bad_ref_exc = e, !.diffs = ds] :
                        e \in {"BadName", "GitCommandError"},
                        ds \in SeqsUpTo(SampleDiffs, MaxDiffs - 1)}
    /\ reviewer \in BOOLEAN
    /\ pc = "request"
    /\ diff = BrokenDiff
    /\ parsed = None
    /\ current_branch = None
    /\ changes = <<>>
    /\ llm_out = None
    /\ context = None
    /\ llm_calls = 0
    /\ agent = None
    /\ result = None
    /\ current_commit = None
    /\ http = None
    /\ calls = <<>>

\* lines 71-76: without a reviewer the handler answers 500 at once
ReceiveRequest ==
    /\ pc = "request"
    /\ IF reviewer
       THEN pc' = "start" /\ UNCHANGED http
       ELSE /\ pc' = "responded"
            /\ http' = Some([status |-> 500, detail |-> "Reviewer not initialized",
                             body |-> None])
    /\ UNCHANGED <<settings, diff, parsed, request, repo, current_branch, changes,
                   llm_out, context, llm_calls, agent, result, current_commit,
                   reviewer, calls>>

\* lines 76-82
Respond ==
    /\ pc = "done"
    /\ http' = Some(review_code(result[1]))
    /\ pc' = "responded"
    /\ UNCHANGED <<settings, diff, parsed, request, repo, current_branch, changes,
                   llm_out, context, llm_calls, agent, result, current_commit,
                   reviewer, calls>>

NextApi ==
    \/ ReceiveRequest
    \/ InitRepo
    \/ GetCurrentBranch
    \/ GetChanges
    \/ NoChanges
    \/ ReviewChanges
    \/ AddMetadata
    \/ Respond

SpecApi == InitApi /\ [][NextApi]_vars

-----------------------------------------------------------------------------
(* Properties of error propagation *)

\* the request names a workspace that is no valid non-bare repository, or a
\* base branch or current ref the repository cannot resolve
RequestUnfulfillable ==
    \/ repo.kind # "ok"
    \/ request.base_branch \notin repo.refs
    \/ (request.current_branch # None /\ request.current_branch[1] \notin repo.refs)

\* C11: review raises ValueError whenever the workspace is invalid, missing
\* or bare and whenever the base branch or the current ref cannot be
\* resolved, and raises no other kind of exception.
C11_OnlyValueError ==
    pc = "done" =>
        /\ RequestUnfulfillable =>
             (result[1].kind = "raise" /\ result[1].exc = "ValueError")
        /\ result[1].kind = "raise" => result[1].exc = "ValueError"

\* C12: POST /review answers 4xx whenever review fails for an invalid
\* repository or an unresolvable revision, and 5xx with the exception text
\* for every other failure, a reviewer that was never created included.
C12_StatusMapping ==
    pc = "responded" =>
        /\ (reviewer /\ RequestUnfulfillable) => http[1].status \in 400..499
        /\ ~reviewer =>
             (http[1].status \in 500..599 /\ http[1].detail = "Reviewer not initialized")
        /\ (reviewer /\ ~RequestUnfulfillable) => http[1].status = 200

-----------------------------------------------------------------------------
(* Properties of change extraction *)

\* the path an entry carries, "" when it carries none
PathOrEmpty(opt) == IF opt = None THEN "" ELSE opt[1]

\* C14: an entry gets exactly one kind, by the first rule that matches:
\* new-file flag, Added with the new path; else deleted-file flag, Deleted
\* with the old path; else rename flag, Renamed with the new path and the old
\* path as old_path; otherwise Modified.
C14_ClassificationOrder ==
    (pc = "parsed" /\ parsed # None) =>
        LET c == parsed[1]
        IN  /\ c.change_type \in FileChangeType
            /\ diff.new_file =>
                 (c.change_type = "added" /\ c.file_path = PathOrEmpty(diff.b_path))
            /\ (~diff.new_file /\ diff.deleted_file) =>
                 (c.change_type = "deleted" /\ c.file_path = PathOrEmpty(diff.a_path))
            /\ (~diff.new_file /\ ~diff.deleted_file /\ diff.renamed_file) =>
                 /\ c.change_type = "renamed"
                 /\ c.file_path = PathOrEmpty(diff.b_path)
                 /\ c.old_path = diff.a_path
            /\ (~diff.new_file /\ ~diff.deleted_file /\ ~diff.renamed_file) =>
                 c.change_type = "modified"

\* an entry with all three flags set was classified Added
C14_Witness ==
    /\ pc = "parsed"
    /\ parsed # None
    /\ diff.new_file /\ diff.deleted_file /\ diff.renamed_file
    /\ diff.a_path # None /\ diff.b_path # None
    /\ parsed[1].change_type = "added"
    /\ parsed[1].file_path = "new.py"

\* the entry parses
Parses(d) == ~d.broken

\* get_changes has returned its list
ChangesReturned == current_commit # None

\* C15: an entry whose parsing fails is the only one left out: get_changes
\* still returns, with exactly the records of the entries that parsed, in the
\* diff's order, so never more records than entries.
C15_FailedEntryDropped ==
    /\ (pc \in {"extracted", "analyzed", "done"} /\ ~RequestUnfulfillable) => ChangesReturned
    /\ ChangesReturned =>
         LET good == SelectSeq(repo.diffs, Parses)
         IN  /\ Len(changes) = Len(good)
             /\ Len(changes) <= Len(repo.diffs)
             /\ \A i \in 1..Len(good) : Some(changes[i]) = parse_diff(settings, good[i])

\* a failing entry stood before an entry that parsed
C15_Witness ==
    /\ ChangesReturned
    /\ Len(repo.diffs) >= 2
    /\ repo.diffs[1].broken
    /\ ~repo.diffs[2].broken
    /\ Len(changes) = Len(repo.diffs) - 1

\* C18: additions and deletions are the structured statistics when the entry
\* supplies them; otherwise additions counts the lines of the patch text that
\* begin with "+" but not "+++", deletions those that begin with "-" but not
\* "---". Neither is negative.
C18_AdditionsDeletions ==
    (pc = "parsed" /\ parsed # None) =>
        LET text == parsed[1].diff
            supplied == diff.stats # None /\ diff.stats[1] # EmptyDict
            LineStart(i) == i = 1 \/ text[i - 1] = "\n"
            At(i, ch) == i <= Len(text) /\ text[i] = ch
            Begins(i, ch) ==
                /\ LineStart(i)
                /\ text[i] = ch
                /\ ~(At(i + 1, ch) /\ At(i + 2, ch))
        IN  /\ parsed[1].additions >= 0
            /\ parsed[1].deletions >= 0
            /\ supplied =>
                 /\ parsed[1].additions = diff.stats[1].insertions
                 /\ parsed[1].deletions = diff.stats[1].deletions
            /\ ~supplied =>
                 /\ parsed[1].additions =
                        Cardinality({i \in 1..Len(text) : Begins(i, "+")})
                 /\ parsed[1].deletions =
                        Cardinality({i \in 1..Len(text) : Begins(i, "-")})

\* a patch that is one +++ header line, stored whole, counted as no addition
C18_Witness ==
    /\ pc = "parsed"
    /\ parsed # None
    /\ diff.stats = None
    /\ parsed[1].diff = <<"+", "+", "+">>
    /\ parsed[1].additions = 0

-----------------------------------------------------------------------------
(* Properties of response parsing and of context assembly *)

\* what parsing owes the caller when severity tokens are matched through
\* `fold`: an answer that is structured data, has every required field and
\* only severity tokens that fold to an enum value is returned with its
\* comments carrying the folded tokens; every other answer is returned as
\* the error result
SeverityContract(fold) ==
    (pc = "agent_done" /\ llm_out # None /\ llm_out[1].kind = "response") =>
        LET raw == llm_out[1].raw
            comments == IF raw.json_ok /\ "comments" \in DOMAIN raw.obj
                        THEN raw.obj.comments ELSE <<>>
            acceptable ==
                /\ raw.json_ok
                /\ RequiredFields \subseteq DOMAIN raw.obj
                /\ \A i \in 1..Len(comments) :
                      fold[comments[i].severity] \in ReviewSeverity
        IN  /\ agent[1].kind = "return"
            /\ acceptable =>
                 /\ agent[1].value.summary = raw.obj.summary
                 /\ agent[1].value.overall_assessment = raw.obj.overall_assessment
                 /\ Len(agent[1].value.comments) = Len(comments)
                 /\ \A i \in 1..Len(comments) :
                      agent[1].value.comments[i].severity = fold[comments[i].severity]
            /\ ~acceptable =>
                 /\ agent[1].value.overall_assessment = "error"
                 /\ "error" \in DOMAIN agent[1].value.metadata
                 /\ Len(agent[1].value.comments) = 1
                 /\ agent[1].value.comments[1].category = "system"

\* C16 as stated: a severity token is accepted when it matches info,
\* warning, error or critical without regard to case, and is stored as the
\* enum value; an answer with a missing required field, another token or
\* invalid structure is returned as the error result, never raised.
C16_SeverityAnyCase == SeverityContract(LowerCase)

\* C16 as the code has it: a severity token is accepted only when it is
\* exactly info, warning, error or critical; an answer with any other
\* token, a case variant such as "WARNING" included, with a missing required
\* field or with invalid structure is returned as the error result, never
\* raised.
C16_SeverityExact == SeverityContract(AsWritten)

\* an answer whose only flaw is the token "WARNING" came back as the error
\* result
C16_Witness ==
    /\ pc = "agent_done"
    /\ llm_out # None
    /\ llm_out[1].kind = "response"
    /\ llm_out[1].raw.json_ok
    /\ RequiredFields \subseteq DOMAIN llm_out[1].raw.obj
    /\ "comments" \in DOMAIN llm_out[1].raw.obj
    /\ llm_out[1].raw.obj.comments[1].severity = "WARNING"
    /\ agent[1].kind = "return"
    /\ agent[1].value.overall_assessment = "error"

\* C17: review_changes called directly with an empty change list returns,
\* before any backend call, files_reviewed 0, zero totals, no comments and
\* positive_feedback ["No changes to review"].
C17_DirectEmptyResult ==
    (pc = "agent_done" /\ changes = <<>>) =>
        /\ llm_calls = 0
        /\ agent[1].kind = "return"
        /\ agent[1].value.files_reviewed = 0
        /\ agent[1].value.total_changes = [additions |-> 0, deletions |-> 0]
        /\ agent[1].value.comments = <<>>
        /\ agent[1].value.positive_feedback = <<"No changes to review">>

\* C19: the context carries custom_instructions as given whenever it is
\* given, the empty string included, and the text "None" only when it is
\* absent.
C19_CustomInstructionsVerbatim ==
    (pc = "agent_done" /\ context # None) =>
        context[1].custom_instructions =
            IF request.custom_instructions = None THEN "None"
            ELSE request.custom_instructions[1]

-----------------------------------------------------------------------------
(* CoReviewer.review while another process works in the same repository *)

\* another process runs `git checkout main`: HEAD leaves feature for main.
\* repo.diffs stands for the diff of the request's base against the
\* request's current ref, so it changes only when that ref is HEAD, and the
\* diff of main against itself has no entry. The scanner's Repo object reads
\* the repository anew at each call (git_scanner.py 42-44 and 59-65).
MoveHead ==
    /\ pc \in {"scanner", "current", "extracted", "analyzed"}
    /\ repo.kind = "ok"
    /\ repo.head_commit = FeatureTip
    /\ repo' = [repo EXCEPT !.active_branch = "main",
                            !.hexsha8 = MainTip[1],
                            !.head_commit = MainTip,
                            !.diffs = IF request.current_branch = None
                                      THEN <<>> ELSE @]
    /\ UNCHANGED <<settings, diff, parsed, request, pc, current_branch, changes,
                   llm_out, context, llm_calls, agent, result>>
    /\ UNCHANGED <<current_commit, reviewer, http, calls>>

NextHead ==
    \/ InitRepo
    \/ GetCurrentBranch
    \/ GetChanges
    \/ NoChanges
    \/ ReviewChanges
    \/ AddMetadata
    \/ MoveHead

SpecHead == Init /\ [][NextHead]_vars

\* the commit a branch name or an abbreviated hexsha names
RevNamed(r, name) ==
    IF name \in DOMAIN r.tips THEN r.tips[name]
    ELSE CHOOSE c \in {MainTip, FeatureTip} : c[1] = name

\* C20: with request.current_branch absent, the current ref recorded in the
\* result's metadata names the revision that get_changes diffed against the
\* base, also when HEAD moves between the two readings of it.
C20_RecordedRefIsDiffed ==
    (/\ pc = "done"
     /\ result[1].kind = "return"
     /\ request.current_branch = None) =>
        RevNamed(repo, result[1].value.metadata["current_branch"]) = current_commit[1]

-----------------------------------------------------------------------------
(* Two calls of CoReviewer.review on the one reviewer of the service *)

\* the calls in flight
CallIds == {1, 2}

\* a call of review at its entry: its request, the repository its workspace
\* path leads to, and its local variables scanner, current_branch, changes
\* and review, none of them bound yet
NewCall(req, disk) ==
    [pc |-> "start", request |-> req, disk |-> disk, scanner |-> None,
     current_branch |-> None, changes |-> <<>>, llm_out |-> None,
     agent |-> None, result |-> None]

\* lines 38-84: the next statement of the call with locals f; `out` is the
\* outcome of the backend call, read only when the call is made. The shared
\* reviewer contributes self.settings, which is only read, and
\* self.review_agent, whose review_changes keeps its data in parameters
review_step(s, f, out) ==
    IF f.pc = "start" THEN
        LET r == init_repo(f.disk, f.request.workspace_path)
        IN  IF r.kind = "raise"
            THEN [f EXCEPT !.pc = "done", !.result = Some(r)]
            ELSE [f EXCEPT !.pc = "scanner", !.scanner = Some(r.value)]
    ELSE IF f.pc = "scanner" THEN
        [f EXCEPT !.pc = "current",
                  !.current_branch = Some(OrElse(f.request.current_branch,
                                                 get_current_branch(f.scanner[1])))]
    ELSE IF f.pc = "current" THEN
        LET r == get_changes(s, f.scanner[1], f.request.base_branch,
                             f.request.current_branch)
        IN  IF r.kind = "raise"
            THEN [f EXCEPT !.pc = "done", !.result = Some(r)]
            ELSE [f EXCEPT !.pc = "extracted", !.changes = r.value]
    ELSE IF f.pc = "extracted" THEN
        IF f.changes = <<>>
        THEN [f EXCEPT !.pc = "done",
                       !.result = Some(Return(no_changes_review(
                                        f.request, f.current_branch[1])))]
        ELSE LET a == review_changes(s, f.changes, f.request.custom_instructions,
                                     f.request.focus_areas, out)
             IN  IF a.ret.kind = "raise"
                 THEN [f EXCEPT !.pc = "done", !.llm_out = Some(out),
                                !.agent = Some(a.ret), !.result = Some(a.ret)]
                 ELSE [f EXCEPT !.pc = "analyzed", !.llm_out = Some(out),
                                !.agent = Some(a.ret)]
    ELSE IF f.pc = "analyzed" THEN
        [f EXCEPT !.pc = "done",
                  !.result = Some(Return(add_metadata(
                                   f.agent[1].value, f.request, f.current_branch[1])))]
    ELSE f

\* a plausible slip: `self.scanner = GitScanner(...)`, the scanner kept on
\* the shared reviewer, where the statement of one call rebinds what the
\* other call reads
StoreLocalsScannerOnSelf(cs, i, f) ==
    [j \in DOMAIN cs |->
        IF j = i THEN f
        ELSE IF cs[i].pc = "start" /\ f.scanner # None
        THEN [cs[j] EXCEPT !.scanner = f.scanner]
        ELSE cs[j]]

\* lines 39-72: scanner, current_branch, changes and review are local
\* variables of review, so a statement of call i rebinds them for call i only
StoreLocals(cs, i, f) == [cs EXCEPT ![i] = f]

InitConc ==
    /\ settings = [max_files_per_review |-> MaxFilesCap, max_diff_size |-> MaxDiffSizeCap]
    /\ \E d1 \in {[IdleRepo EXCEPT !.diffs = ds] : ds \in SeqsUpTo(SampleDiffs, 1)},
          d2 \in {[IdleRepo EXCEPT !.kind = "invalid"]}
                 \cup {[IdleRepo EXCEPT !.active_branch = "main",
                                        !.hexsha8 = MainTip[1],
                                        !.head_commit = MainTip,
                                        !.diffs = ds] :
                          ds \in SeqsUpTo(SampleDiffs, 1)} :
          calls = [i \in CallIds |->
                      IF i = 1
                      THEN NewCall(IdleRequest, d1)
                      ELSE NewCall([IdleRequest EXCEPT !.workspace_path = "/ws2",
                                                       !.base_branch = "feature"], d2)]
    /\ request = IdleRequest
    /\ repo = IdleRepo
    /\ pc = "calls"
    /\ diff = BrokenDiff
    /\ parsed = None
    /\ current_branch = None
    /\ changes = <<>>
    /\ llm_out = None
    /\ context = None
    /\ llm_calls = 0
    /\ agent = None
    /\ result = None
    /\ current_commit = None
    /\ reviewer = TRUE
    /\ http = None

\* one statement of call i, at any point of the other call
StepCall(i) ==
    /\ calls[i].pc # "done"
    /\ \E out \in LlmOutcomes :
          calls' = StoreLocals(calls, i, review_step(settings, calls[i], out))
    /\ UNCHANGED <<settings, diff, parsed, request, repo, pc, current_branch,
                   changes, llm_out, context, llm_calls, agent, result,
                   current_commit, reviewer, http>>

NextConc == \E i \in CallIds : StepCall(i)

SpecConc == InitConc /\ [][NextConc]_vars

\* what review returns or raises for one request when nothing else runs
ReviewAlone(s, req, disk, out) ==
    LET r == init_repo(disk, req.workspace_path)
    IN  IF r.kind = "raise" THEN r
        ELSE LET current == OrElse(req.current_branch, get_current_branch(disk))
                 g == get_changes(s, disk, req.base_branch, req.current_branch)
             IN  IF g.kind = "raise" THEN g
                 ELSE IF g.value = <<>>
                 THEN Return(no_changes_review(req, current))
                 ELSE LET a == review_changes(s, g.value, req.custom_instructions,
                                              req.focus_areas, out[1]).ret
                      IN  IF a.kind = "raise" THEN a
                          ELSE Return(add_metadata(a.value, req, current))

\* C13: under every interleaving of two calls of review on one reviewer,
\* each call ends with the result its own request, its own repository and
\* its own backend answer give when the call runs alone; the metadata names
\* its own base and current ref, and a finished call's result is not touched
\* by the steps the other call still takes.
C13_CallsIsolated ==
    \A i \in CallIds :
        calls[i].pc = "done" =>
            LET f == calls[i]
            IN  /\ f.result # None
                /\ f.result[1] = ReviewAlone(settings, f.request, f.disk, f.llm_out)
                /\ f.result[1].kind = "return" =>
                     /\ f.result[1].value.metadata["base_branch"] = f.request.base_branch
                     /\ f.result[1].value.metadata["current_branch"] =
                            OrElse(f.request.current_branch, get_current_branch(f.disk))
                     /\ f.changes = ParseAll(settings, f.disk.diffs, 1, <<>>)

\* call 1 has returned its result while call 2, on another workspace with
\* another base, is between its backend call and its return
C13_Witness ==
    /\ calls # <<>>
    /\ calls[1].pc = "done"
    /\ calls[1].result[1].kind = "return"
    /\ calls[1].changes # <<>>
    /\ calls[2].pc = "analyzed"
    /\ calls[2].changes # calls[1].changes
    /\ calls[1].result[1].value.metadata["base_branch"] = "main"
    /\ calls[1].result[1].value.metadata["current_branch"] = "feature"

-----------------------------------------------------------------------------
(* Frame of the Enrich step *)

\* C21: the Enrich step changes nothing but the metadata of the result the
\* agent returned: summary, files_reviewed, total_changes, the comments in
\* their order, positive_feedback and overall_assessment reach the caller as
\* the agent produced them, for a parsed answer and for the error result.
C21_EnrichFrame ==
    (pc = "done" /\ agent # None /\ agent[1].kind = "return") =>
        /\ result # None
        /\ result[1].kind = "return"
        /\ DOMAIN result[1].value = CodeReviewFields
        /\ \A k \in CodeReviewFields \ {"metadata"} :
              result[1].value[k] = agent[1].value[k]

\* a parsed answer with two comments and one positive remark went through
\* Enrich, which changed its metadata
C21_Witness ==
    /\ pc = "done"
    /\ agent # None
    /\ agent[1].kind = "return"
    /\ result[1].kind = "return"
    /\ Len(result[1].value.comments) = 2
    /\ result[1].value.comments[1].file_path = "a.txt"
    /\ result[1].value.comments[2].file_path = "b.txt"
    /\ result[1].value.positive_feedback = <<"good tests">>
    /\ result[1].value.metadata # agent[1].value.metadata

=============================================================================
